---- MODULE Spec2Model ----
(***************************************************************************)
(* A model of the graph data model (Vertex, Edge, Graph) and of the        *)
(* Kruskal engine of src/src/classes.py.                                   *)
(*                                                                         *)
(* Python objects are modelled as numbered heap cells: Vertex objects are  *)
(* 1..n_vertices, Edge objects are 1..n_edges, and an object's fields are  *)
(* functions of its number.  An object that was removed from the graph is  *)
(* still an object (a caller may hold a reference to it), so numbers are   *)
(* never reused.  Every method is an operator from a heap record to the    *)
(* heap record the method leaves behind; field "raised" tells whether the  *)
(* call ended in an exception.                                             *)
(***************************************************************************)
EXTENDS Integers, Sequences, FiniteSets, TLC

\* Bounds of the model.
MaxCalls == 6      \* calls a client makes on a Graph, from the empty graph
MaxWeight == 1     \* the weights that client passes are 0..MaxWeight
MaxVertices == 3   \* Vertex objects of a graph Kruskal is run on
MaxEdges == 3      \* Edge objects of a graph Kruskal is run on
MaxEdgeWeight == 3 \* the weights of a graph an AlgorithmRunner runs on
MaxObjects == 3    \* Vertex and Edge objects an Editor constructs

\* The inputs the callers draw from: a vertex is constructed at Origin and
\* moved to the points of Points.
Origin == <<0, 0>>
Points == {Origin, <<3, 4>>}
Weights == 0..MaxWeight

VARIABLES
    n_vertices,      \* number of Vertex objects constructed so far
    pos,             \* Vertex.pos
    v_edges,         \* Vertex._edges
    n_edges,         \* number of Edge objects constructed so far
    e_vertices,      \* Edge.vertices, a pair <<a, b>>
    weight,          \* Edge.weight
    kruskal_status,  \* Edge.kruskal_status: -1, 0, 1 or 2
    label_rect,      \* Edge._label_rect: <<>> for None, or <<left, top, size>>
                     \* for the square pg.Rect(left, top, size, size)
    vertices,        \* Graph.vertices
    edges,           \* Graph.edges
    components,      \* Kruskal.components of the engine in use: <<>> before
                     \* a Kruskal is constructed, then <<the set of components>>
    snapshot,        \* (history) Graph.vertices when that Kruskal was constructed
    edge_list,       \* AlgorithmRunner._edge_list
    edge_index,      \* AlgorithmRunner._edge_index
    checking,        \* AlgorithmRunner._checking
    runner_state,    \* AlgorithmRunner._state, "none" before one is constructed
    runner_done,     \* AlgorithmRunner._done
    frame_counter,   \* AlgorithmRunner._frame_counter
    next_step_calls, \* (history) number of calls of AlgorithmRunner.next_step
    before,          \* (history) <<>>, then <<the heap an AlgorithmRunner was
                     \* constructed on>>
    ed_state,        \* Editor._state, "none" before an Editor is constructed
    ed_selected,     \* Editor._selected: <<"None">>, <<"Vertex", v>>, <<"Edge", e>>
    from_vertex,     \* Editor._from_vertex: <<"None">> or <<"Vertex", v>>
    new_weight,      \* Editor._new_weight
    ed_done,         \* Editor._done
    ed_quit,         \* whether state_editor_free called quit()
    handler,         \* the handler Editor.run is in: "none" between two
                     \* frames, or the state the frame began in
    ed_mouse_pos,    \* mouse_pos of the frame of Editor.run
    raised,          \* whether the last call raised an exception
    op,              \* the last call: its name and its arguments
    ret,             \* what the last call returned
    calls            \* number of calls made so far

vars == <<n_vertices, pos, v_edges, n_edges, e_vertices, weight,
          kruskal_status, label_rect, vertices, edges, components, snapshot, edge_list,
          edge_index, checking, runner_state, runner_done, frame_counter,
          next_step_calls, before, ed_state, ed_selected, from_vertex,
          new_weight, ed_done, ed_quit, handler, ed_mouse_pos, raised, op,
          ret, calls>>

\* The heap as one record, the argument and the result of every method.
Heap ==
    [n_vertices |-> n_vertices, pos |-> pos, v_edges |-> v_edges,
     n_edges |-> n_edges, e_vertices |-> e_vertices, weight |-> weight,
     kruskal_status |-> kruskal_status, label_rect |-> label_rect,
     vertices |-> vertices,
     edges |-> edges, components |-> components, edge_list |-> edge_list,
     edge_index |-> edge_index, checking |-> checking,
     runner_state |-> runner_state, runner_done |-> runner_done,
     frame_counter |-> frame_counter, next_step_calls |-> next_step_calls,
     ed_state |-> ed_state, selected |-> ed_selected,
     from_vertex |-> from_vertex, new_weight |-> new_weight,
     ed_done |-> ed_done, ed_quit |-> ed_quit, handler |-> handler,
     mouse_pos |-> ed_mouse_pos, raised |-> FALSE]

Install(h) ==
    /\ n_vertices' = h.n_vertices
    /\ pos' = h.pos
    /\ v_edges' = h.v_edges
    /\ n_edges' = h.n_edges
    /\ e_vertices' = h.e_vertices
    /\ weight' = h.weight
    /\ kruskal_status' = h.kruskal_status
    /\ label_rect' = h.label_rect
    /\ vertices' = h.vertices
    /\ edges' = h.edges
    /\ components' = h.components
    /\ edge_list' = h.edge_list
    /\ edge_index' = h.edge_index
    /\ checking' = h.checking
    /\ runner_state' = h.runner_state
    /\ runner_done' = h.runner_done
    /\ frame_counter' = h.frame_counter
    /\ next_step_calls' = h.next_step_calls
    /\ ed_state' = h.ed_state
    /\ ed_selected' = h.selected
    /\ from_vertex' = h.from_vertex
    /\ new_weight' = h.new_weight
    /\ ed_done' = h.ed_done
    /\ ed_quit' = h.ed_quit
    /\ handler' = h.handler
    /\ ed_mouse_pos' = h.mouse_pos
    /\ raised' = h.raised

\* raise ValueError(...) / KeyError: the call ends here, the heap as it is.
Raise(h) == [h EXCEPT !.raised = TRUE]

\* The elements of a pair as a set: set((a, b)), and "x in e.vertices".
PairSet(p) == {p[1], p[2]}

----------------------------------------------------------------------------
(* Vertex and Edge *)

\* Vertex.__init__: a new object with the given position and no edges.
Vertex_init(h, p) ==
    LET v == h.n_vertices + 1 IN
    [h EXCEPT !.n_vertices = v,
              !.pos = (v :> p) @@ h.pos,
              !.v_edges = (v :> {}) @@ h.v_edges]

\* Edge.__init__: a new object, registered in both endpoints' edge sets.
Edge_init(h, a, b, w) ==
    LET e == h.n_edges + 1 IN
    [h EXCEPT !.n_edges = e,
              !.e_vertices = (e :> <<a, b>>) @@ h.e_vertices,
              !.weight = (e :> w) @@ h.weight,
              !.kruskal_status = (e :> 0) @@ h.kruskal_status,
              !.label_rect = (e :> <<>>) @@ h.label_rect,
              !.v_edges = [x \in DOMAIN h.v_edges |->
                              IF x \in {a, b} THEN h.v_edges[x] \cup {e}
                                              ELSE h.v_edges[x]]]

\* Vertex.deg
deg(h, v) == Cardinality(h.v_edges[v])

----------------------------------------------------------------------------
(* Graph mutators *)

add_vertex(h, v) == [h EXCEPT !.vertices = h.vertices \cup {v}]

\* move_vertex with the assignment ahead of the membership test.
move_vertex_assign_first(h, v, p) ==
    IF v \notin h.vertices THEN Raise([h EXCEPT !.pos[v] = p])
    ELSE [h EXCEPT !.pos[v] = p]

move_vertex(h, v, p) ==
    IF v \notin h.vertices THEN Raise(h)
    ELSE [h EXCEPT !.pos[v] = p]

modify_edge_weight(h, e, w) ==
    IF e \notin h.edges THEN Raise(h)
    ELSE [h EXCEPT !.weight[e] = w]

\* remove_edge that leaves the edge in the edge set of its second endpoint.
remove_edge_keep_second(h, e) ==
    IF e \notin h.edges THEN Raise(h)
    ELSE LET a == h.e_vertices[e][1]
         IN  IF e \notin h.v_edges[a] THEN Raise(h)
             ELSE [h EXCEPT !.v_edges[a] = h.v_edges[a] \ {e},
                            !.edges = h.edges \ {e}]

\* set.remove raises KeyError when the element is absent.
remove_edge(h, e) ==
    IF e \notin h.edges THEN Raise(h)
    ELSE LET a == h.e_vertices[e][1]
             b == h.e_vertices[e][2]
         IN  IF e \notin h.v_edges[a] THEN Raise(h)
             ELSE LET h1 == [h EXCEPT !.v_edges[a] = h.v_edges[a] \ {e}]
                  IN  IF e \notin h1.v_edges[b] THEN Raise(h1)
                      ELSE [h1 EXCEPT !.v_edges[b] = h1.v_edges[b] \ {e},
                                      !.edges = h1.edges \ {e}]

\* The loop of remove_vertex over the incident edges collected beforehand.
\* The edges are distinct members, so the order of the set's iteration does
\* not change the result; an exception ends the loop.
RECURSIVE remove_edges(_, _)
remove_edges(h, es) ==
    IF es = {} \/ h.raised THEN h
    ELSE LET e == CHOOSE x \in es : TRUE
         IN  remove_edges(remove_edge(h, e), es \ {e})

\* remove_vertex without the removal of the incident edges.
remove_vertex_no_cascade(h, v) ==
    IF v \notin h.vertices THEN Raise(h)
    ELSE [h EXCEPT !.vertices = h.vertices \ {v}]

remove_vertex(h, v) ==
    IF v \notin h.vertices THEN Raise(h)
    ELSE LET h1 == remove_edges(h, {e \in h.edges : v \in PairSet(h.e_vertices[e])})
         IN  IF h1.raised THEN h1
             ELSE [h1 EXCEPT !.vertices = h1.vertices \ {v}]

\* add_edge comparing the endpoints as an ordered pair, not as a set.
add_edge_ordered(h, a, b, w) ==
    IF a \notin h.vertices \/ b \notin h.vertices THEN Raise(h)
    ELSE IF a = b THEN h
    ELSE LET same == {e \in h.edges : <<a, b>> = h.e_vertices[e]}
         IN  IF same # {}
             THEN modify_edge_weight(h, CHOOSE e \in same : TRUE, w)
             ELSE LET h1 == Edge_init(h, a, b, w)
                  IN  [h1 EXCEPT !.edges = h1.edges \cup {h1.n_edges}]

\* add_edge that leaves an existing edge's weight as it is.
add_edge_no_update(h, a, b, w) ==
    IF a \notin h.vertices \/ b \notin h.vertices THEN Raise(h)
    ELSE IF a = b THEN h
    ELSE LET same == {e \in h.edges : {a, b} = PairSet(h.e_vertices[e])}
         IN  IF same # {}
             THEN h
             ELSE LET h1 == Edge_init(h, a, b, w)
                  IN  [h1 EXCEPT !.edges = h1.edges \cup {h1.n_edges}]

\* add_edge that raises only when both endpoints are absent.
add_edge_and(h, a, b, w) ==
    IF a \notin h.vertices /\ b \notin h.vertices THEN Raise(h)
    ELSE IF a = b THEN h
    ELSE LET same == {e \in h.edges : {a, b} = PairSet(h.e_vertices[e])}
         IN  IF same # {}
             THEN modify_edge_weight(h, CHOOSE e \in same : TRUE, w)
             ELSE LET h1 == Edge_init(h, a, b, w)
                  IN  [h1 EXCEPT !.edges = h1.edges \cup {h1.n_edges}]

add_edge(h, a, b, w) ==
    IF a \notin h.vertices \/ b \notin h.vertices THEN Raise(h)
    ELSE IF a = b THEN h
    ELSE LET same == {e \in h.edges : {a, b} = PairSet(h.e_vertices[e])}
         IN  IF same # {}
             THEN modify_edge_weight(h, CHOOSE e \in same : TRUE, w)
             ELSE LET h1 == Edge_init(h, a, b, w)
                  IN  [h1 EXCEPT !.edges = h1.edges \cup {h1.n_edges}]

----------------------------------------------------------------------------
(* Graph queries *)

\* Edge.walk: the other endpoint; raises when start is no endpoint.
walk(h, e, start) ==
    IF start \notin PairSet(h.e_vertices[e])
    THEN [raised |-> TRUE, value |-> start]
    ELSE [raised |-> FALSE,
          value |-> IF start = h.e_vertices[e][2] THEN h.e_vertices[e][1]
                                                  ELSE h.e_vertices[e][2]]

\* _dfs that marks the neighbours of v without searching on from them.
dfs_no_recursion(h, v, seen) ==
    IF v \notin h.vertices THEN [raised |-> TRUE, seen |-> seen]
    ELSE [raised |-> FALSE,
          seen |-> seen \cup {v} \cup {walk(h, e, v).value : e \in h.v_edges[v]}]

\* Graph._dfs adds to the set `seen` it is handed; the result is that set
\* after the call, and whether the call raised.  dfs_edges is the loop over
\* v._edges: the vertices seen do not depend on the order of the iteration.
RECURSIVE dfs(_, _, _), dfs_edges(_, _, _, _)
dfs(h, v, seen) ==
    IF v \notin h.vertices THEN [raised |-> TRUE, seen |-> seen]
    ELSE dfs_edges(h, v, h.v_edges[v], seen \cup {v})

dfs_edges(h, v, es, seen) ==
    IF es = {} THEN [raised |-> FALSE, seen |-> seen]
    ELSE LET e == CHOOSE x \in es : TRUE
             w == walk(h, e, v)
             r == IF w.raised THEN [raised |-> TRUE, seen |-> seen]
                  ELSE IF w.value \notin seen THEN dfs(h, w.value, seen)
                  ELSE [raised |-> FALSE, seen |-> seen]
         IN  IF r.raised THEN r ELSE dfs_edges(h, v, es \ {e}, r.seen)

\* Graph.connected, with `start` the vertex next(iter(self.vertices)) yields.
connected(h, start) ==
    IF Cardinality(h.vertices) <= 1 THEN [raised |-> FALSE, value |-> TRUE]
    ELSE LET r == dfs(h, start, {})
         IN  [raised |-> r.raised,
              value |-> Cardinality(r.seen) = Cardinality(h.vertices)]

MsgNeedsEdge == "Your graph needs at least one edge!"
MsgMustBeConnected == "Your graph must be connected!"
MsgLooksGood == "Looks good! Press [SPACE] to run Kruskal's Algorithm!"

\* usable that tests connectivity before it tests for an edge.
usable_connected_first(h, start) ==
    LET c == connected(h, start)
    IN  IF c.raised THEN [raised |-> TRUE, value |-> <<>>]
        ELSE IF ~c.value
        THEN [raised |-> FALSE, value |-> <<FALSE, MsgMustBeConnected>>]
        ELSE IF Cardinality(h.edges) = 0
        THEN [raised |-> FALSE, value |-> <<FALSE, MsgNeedsEdge>>]
        ELSE [raised |-> FALSE, value |-> <<TRUE, MsgLooksGood>>]

\* Graph.usable
usable(h, start) ==
    IF Cardinality(h.edges) = 0
    THEN [raised |-> FALSE, value |-> <<FALSE, MsgNeedsEdge>>]
    ELSE LET c == connected(h, start)
         IN  IF c.raised THEN [raised |-> TRUE, value |-> <<>>]
             ELSE IF ~c.value
             THEN [raised |-> FALSE, value |-> <<FALSE, MsgMustBeConnected>>]
             ELSE [raised |-> FALSE, value |-> <<TRUE, MsgLooksGood>>]

\* The vertices iter(self.vertices) may yield first (unused on an empty set).
Starts(h) == IF h.vertices = {} THEN {0} ELSE h.vertices

----------------------------------------------------------------------------
(* Kruskal *)

\* Kruskal.__init__: each vertex of the graph in a component of its own.
Kruskal_init(h) ==
    [h EXCEPT !.components = <<{{v} : v \in h.vertices}>>]

\* The component the loop of check_edge leaves in _a_component for vertex
\* x: a component that holds x, or None (no component holds x).  None is
\* modelled as the empty set, which `not` treats as it treats None.
component_of(cs, x) ==
    IF \E c \in cs : x \in c THEN CHOOSE c \in cs : x \in c ELSE {}

\* check_edge with the two classifications exchanged.
check_edge_swapped(h, e) ==
    LET a == h.e_vertices[e][1]
        b == h.e_vertices[e][2]
        cs == h.components[1]
        a_component == component_of(cs, a)
        b_component == component_of(cs, b)
    IN  IF ~(a_component # {} /\ b_component # {}) THEN Raise(h)
        ELSE IF a_component = b_component
        THEN [h EXCEPT !.kruskal_status[e] = 1]
        ELSE [h EXCEPT !.kruskal_status[e] = -1,
                       !.components =
                           <<((cs \ {a_component}) \ {b_component})
                                \cup {a_component \cup b_component}>>]

\* check_edge that forgets to remove b's component when it merges.
check_edge_keep_b(h, e) ==
    LET a == h.e_vertices[e][1]
        b == h.e_vertices[e][2]
        cs == h.components[1]
        a_component == component_of(cs, a)
        b_component == component_of(cs, b)
    IN  IF ~(a_component # {} /\ b_component # {}) THEN Raise(h)
        ELSE IF a_component = b_component
        THEN [h EXCEPT !.kruskal_status[e] = -1]
        ELSE [h EXCEPT !.kruskal_status[e] = 1,
                       !.components =
                           <<(cs \ {a_component})
                                \cup {a_component \cup b_component}>>]

\* check_edge that includes the edge and leaves the components unmerged.
check_edge_no_merge(h, e) ==
    LET a == h.e_vertices[e][1]
        b == h.e_vertices[e][2]
        cs == h.components[1]
        a_component == component_of(cs, a)
        b_component == component_of(cs, b)
    IN  IF ~(a_component # {} /\ b_component # {}) THEN Raise(h)
        ELSE IF a_component = b_component
        THEN [h EXCEPT !.kruskal_status[e] = -1]
        ELSE [h EXCEPT !.kruskal_status[e] = 1]

\* Kruskal.check_edge
check_edge(h, e) ==
    LET a == h.e_vertices[e][1]
        b == h.e_vertices[e][2]
        cs == h.components[1]
        a_component == component_of(cs, a)
        b_component == component_of(cs, b)
    IN  IF ~(a_component # {} /\ b_component # {}) THEN Raise(h)
        ELSE IF a_component = b_component
        THEN [h EXCEPT !.kruskal_status[e] = -1]
        ELSE [h EXCEPT !.kruskal_status[e] = 1,
                       !.components =
                           <<((cs \ {a_component}) \ {b_component})
                                \cup {a_component \cup b_component}>>]

----------------------------------------------------------------------------
(* Graph queries used by the algorithm, and AlgorithmRunner *)

\* The sequences that list every element of set S exactly once.
Orderings(S) ==
    {q \in [1..Cardinality(S) -> S] : \A x \in S : \E i \in DOMAIN q : q[i] = x}

(* Geometry.  Coordinates are integers; pt_distance is a square root, so a   *)
(* distance is kept as its square, an exact fraction <<numerator,            *)
(* denominator>>, and distances are compared by their squares.               *)

sq(x) == x * x

\* The square of pt_distance(a, b).
pt_distance_sq(a, b) == sq(b[1] - a[1]) + sq(b[2] - a[2])

\* lies_between(point, a, b), with _a, _b, _c squared exactly.
lies_between(point, a, b) ==
    LET a2 == pt_distance_sq(a, b)
        b2 == pt_distance_sq(b, point)
        c2 == pt_distance_sq(point, a)
    IN  (a2 + b2 >= c2) /\ (a2 + c2 >= b2)

\* x <= y for two squared distances.
frac_leq(x, y) == x[1] * y[2] <= y[1] * x[2]

min(x, y) == IF x <= y THEN x ELSE y

\* pg.Rect.collidepoint for the square r = <<left, top, size>>.
collidepoint(r, p) ==
    /\ r[1] <= p[1] /\ p[1] < r[1] + r[3]
    /\ r[2] <= p[2] /\ p[2] < r[2] + r[3]

\* pg.Rect.center
center(r) == <<r[1] + (r[3] \div 2), r[2] + (r[3] \div 2)>>

\* constants.VERTEX_HOVER_RADIUS, EDGE_HOVER_WIDTH, EDGE_DEFAULT_WIDTH
VERTEX_HOVER_RADIUS == 12
EDGE_HOVER_WIDTH == 4
EDGE_DEFAULT_WIDTH == 2

\* constants.FONT_SIZE.  The rendered text of a weight is taken to be a
\* square of this size: w_text_border_size in Edge.draw.
FONT_SIZE == 16

\* Vertex.distance_to(point), squared.
Vertex_distance_to(h, v, point) == <<pt_distance_sq(h.pos[v], point), 1>>

\* Edge.distance_to(point), squared; value is <<>> when the division by
\* pt_distance of two equal endpoints raises ZeroDivisionError.
Edge_distance_to(h, e, point) ==
    LET p1 == h.pos[h.e_vertices[e][1]]
        p2 == h.pos[h.e_vertices[e][2]]
        r == h.label_rect[e]
        cross == (p2[1] - p1[1]) * (p1[2] - point[2])
                   - (p1[1] - point[1]) * (p2[2] - p1[2])
    IN  IF r # <<>> /\ collidepoint(r, point)
        THEN [raised |-> FALSE,
              value |-> <<pt_distance_sq(point, center(r)),
                          sq(EDGE_HOVER_WIDTH)>>]
        ELSE IF lies_between(point, p1, p2)
        THEN IF pt_distance_sq(p1, p2) = 0
             THEN [raised |-> TRUE, value |-> <<>>]
             ELSE [raised |-> FALSE,
                   value |-> <<sq(cross), pt_distance_sq(p1, p2)>>]
        ELSE [raised |-> FALSE,
              value |-> <<min(pt_distance_sq(point, p1),
                              pt_distance_sq(point, p2)), 1>>]

\* sorted(q, key=...): a stable sort of list q, computed by insertion; k[x]
\* is the key of x, a squared distance.
RECURSIVE insert_key(_, _, _)
insert_key(k, r, x) ==
    IF r = <<>> THEN <<x>>
    ELSE IF frac_leq(k[Head(r)], k[x])
    THEN <<Head(r)>> \o insert_key(k, Tail(r), x)
    ELSE <<x>> \o r

RECURSIVE sorted_key(_, _)
sorted_key(k, q) ==
    IF q = <<>> THEN <<>>
    ELSE insert_key(k, sorted_key(k, SubSeq(q, 1, Len(q) - 1)), q[Len(q)])

\* What get_selected returns: a Vertex, an Edge or None.
NoneSelected == <<"None">>
VertexSelected(v) == <<"Vertex", v>>
EdgeSelected(e) == <<"Edge", e>>

\* get_selected that looks at the edges before the vertices.
get_selected_edges_first(h, mouse_pos) ==
    LET in_v == {v \in h.vertices :
                    frac_leq(Vertex_distance_to(h, v, mouse_pos),
                             <<sq(VERTEX_HOVER_RADIUS), 1>>)}
        kv == [v \in in_v |-> Vertex_distance_to(h, v, mouse_pos)]
        d == [e \in h.edges |-> Edge_distance_to(h, e, mouse_pos)]
        in_e == {e \in h.edges :
                    /\ ~d[e].raised
                    /\ frac_leq(d[e].value, <<sq(EDGE_HOVER_WIDTH), 1>>)}
        ke == [e \in in_e |-> d[e].value]
    IN  IF \E e \in h.edges : d[e].raised
        THEN {[raised |-> TRUE, value |-> NoneSelected]}
        ELSE IF in_e # {}
        THEN {[raised |-> FALSE, value |-> EdgeSelected(sorted_key(ke, q)[1])] :
                 q \in Orderings(in_e)}
        ELSE IF in_v # {}
        THEN {[raised |-> FALSE,
               value |-> VertexSelected(sorted_key(kv, q)[1])] :
                 q \in Orderings(in_v)}
        ELSE {[raised |-> FALSE, value |-> NoneSelected]}

\* Graph.get_selected: the set of its outcomes, one for each order in which
\* the sets iterate (filter keeps that order, and the sort is stable).  The
\* filter of the edges calls distance_to of every edge, so one edge with
\* equal endpoints makes the call raise when no vertex is in range.
get_selected(h, mouse_pos) ==
    LET in_v == {v \in h.vertices :
                    frac_leq(Vertex_distance_to(h, v, mouse_pos),
                             <<sq(VERTEX_HOVER_RADIUS), 1>>)}
        kv == [v \in in_v |-> Vertex_distance_to(h, v, mouse_pos)]
        d == [e \in h.edges |-> Edge_distance_to(h, e, mouse_pos)]
        in_e == {e \in h.edges :
                    /\ ~d[e].raised
                    /\ frac_leq(d[e].value, <<sq(EDGE_HOVER_WIDTH), 1>>)}
        ke == [e \in in_e |-> d[e].value]
    IN  IF in_v # {}
        THEN {[raised |-> FALSE,
               value |-> VertexSelected(sorted_key(kv, q)[1])] :
                 q \in Orderings(in_v)}
        ELSE IF \E e \in h.edges : d[e].raised
        THEN {[raised |-> TRUE, value |-> NoneSelected]}
        ELSE IF in_e # {}
        THEN {[raised |-> FALSE, value |-> EdgeSelected(sorted_key(ke, q)[1])] :
                 q \in Orderings(in_e)}
        ELSE {[raised |-> FALSE, value |-> NoneSelected]}

\* Edge.draw(surf, font, color, width): the label rectangle is set; the
\* division min(diff) / max(diff) raises ZeroDivisionError when the
\* endpoints are at the same position.
Edge_draw(h, e, width) ==
    LET a == h.pos[h.e_vertices[e][1]]
        b == h.pos[h.e_vertices[e][2]]
        w == IF h.kruskal_status[e] \in {1, 2} THEN EDGE_HOVER_WIDTH
             ELSE width
        midpoint == <<(a[1] + b[1]) \div 2, (a[2] + b[2]) \div 2>>
        size == FONT_SIZE + 2 * w
    IN  IF a = b THEN Raise(h)
        ELSE [h EXCEPT !.label_rect[e] =
                           <<midpoint[1] - (size \div 2),
                             midpoint[2] - (size \div 2), size>>]

\* Graph.draw(surf, selected, font): every edge is drawn, the selected one
\* with the hover width.  (Drawing a vertex changes nothing.)
RECURSIVE draw_edges(_, _, _)
draw_edges(h, es, selected) ==
    IF es = {} \/ h.raised THEN h
    ELSE LET e == CHOOSE x \in es : TRUE
             w == IF selected = EdgeSelected(e) THEN EDGE_HOVER_WIDTH
                  ELSE EDGE_DEFAULT_WIDTH
         IN  draw_edges(Edge_draw(h, e, w), es \ {e}, selected)

draw(h, selected) == draw_edges(h, h.edges, selected)

\* sorted(q, key=lambda e: e.weight) for a list q of edges: a stable sort,
\* computed by insertion.  insert puts edge x behind the edges of the sorted
\* list r whose weight is at most its own.
RECURSIVE insert(_, _, _)
insert(h, r, x) ==
    IF r = <<>> THEN <<x>>
    ELSE IF h.weight[Head(r)] <= h.weight[x]
    THEN <<Head(r)>> \o insert(h, Tail(r), x)
    ELSE <<x>> \o r

RECURSIVE sorted(_, _)
sorted(h, q) ==
    IF q = <<>> THEN <<>>
    ELSE insert(h, sorted(h, SubSeq(q, 1, Len(q) - 1)), q[Len(q)])

\* sorted(..., reverse=True): stable, by descending weight.
RECURSIVE insert_reverse(_, _, _)
insert_reverse(h, r, x) ==
    IF r = <<>> THEN <<x>>
    ELSE IF h.weight[Head(r)] >= h.weight[x]
    THEN <<Head(r)>> \o insert_reverse(h, Tail(r), x)
    ELSE <<x>> \o r

RECURSIVE sorted_reverse(_, _)
sorted_reverse(h, q) ==
    IF q = <<>> THEN <<>>
    ELSE insert_reverse(h, sorted_reverse(h, SubSeq(q, 1, Len(q) - 1)),
                        q[Len(q)])

\* get_sorted_edges sorting by descending weight.
get_sorted_edges_descending(h) ==
    {sorted_reverse(h, q) : q \in Orderings(h.edges)}

\* get_sorted_edges that returns list(self.edges), not sorted.
get_sorted_edges_unsorted(h) == Orderings(h.edges)

\* Graph.get_sorted_edges: sorted() is handed the edges in the order the set
\* iterates in, which is any order, and sorts them by weight; one result for
\* each iteration order.
get_sorted_edges(h) ==
    {sorted(h, q) : q \in Orderings(h.edges)}

RECURSIVE SumWeights(_, _)
SumWeights(h, es) ==
    IF es = {} THEN 0
    ELSE LET e == CHOOSE x \in es : TRUE
         IN  h.weight[e] + SumWeights(h, es \ {e})

\* kruskal_weight that also counts the edge that is being checked.
kruskal_weight_checked(h) ==
    SumWeights(h, {e \in h.edges : h.kruskal_status[e] >= 1})

\* Graph.kruskal_weight
kruskal_weight(h) ==
    SumWeights(h, {e \in h.edges : h.kruskal_status[e] = 1})

\* AlgorithmRunner.__init__, with q the list get_sorted_edges returned.
AlgorithmRunner_init(h, q) ==
    [Kruskal_init(h) EXCEPT !.edge_list = q,
                            !.edge_index = 0,
                            !.checking = FALSE,
                            !.frame_counter = 0,
                            !.runner_done = FALSE,
                            !.runner_state = "runner.stepping"]

\* next_step that leaves _edge_index alone after it checked an edge.
next_step_no_advance(h) ==
    LET h0 == [h EXCEPT !.next_step_calls = h.next_step_calls + 1]
        i == h.edge_index + 1
        h1 == IF h.checking
              THEN IF i > Len(h.edge_list) THEN Raise(h0)
                   ELSE LET c == check_edge(h0, h.edge_list[i])
                        IN  IF c.raised THEN c
                            ELSE [c EXCEPT !.checking = FALSE]
              ELSE IF i > Len(h.edge_list) THEN Raise(h0)
                   ELSE [h0 EXCEPT !.kruskal_status[h.edge_list[i]] = 2,
                                   !.checking = TRUE]
    IN  IF h1.raised THEN h1
        ELSE IF h1.edge_index = Cardinality(h1.edges)
        THEN [h1 EXCEPT !.runner_state = "runner.done"]
        ELSE h1

\* next_step that compares _edge_index with one less than the edge count.
next_step_done_early(h) ==
    LET h0 == [h EXCEPT !.next_step_calls = h.next_step_calls + 1]
        i == h.edge_index + 1
        h1 == IF h.checking
              THEN IF i > Len(h.edge_list) THEN Raise(h0)
                   ELSE LET c == check_edge(h0, h.edge_list[i])
                        IN  IF c.raised THEN c
                            ELSE [c EXCEPT !.edge_index = h.edge_index + 1,
                                           !.checking = FALSE]
              ELSE IF i > Len(h.edge_list) THEN Raise(h0)
                   ELSE [h0 EXCEPT !.kruskal_status[h.edge_list[i]] = 2,
                                   !.checking = TRUE]
    IN  IF h1.raised THEN h1
        ELSE IF h1.edge_index = Cardinality(h1.edges) - 1
        THEN [h1 EXCEPT !.runner_state = "runner.done"]
        ELSE h1

\* AlgorithmRunner.next_step.  The list is indexed from 0 in the source and
\* from 1 here; an index past the end raises IndexError.  Field
\* next_step_calls counts the calls.
next_step(h) ==
    LET h0 == [h EXCEPT !.next_step_calls = h.next_step_calls + 1]
        i == h.edge_index + 1
        h1 == IF h.checking
              THEN IF i > Len(h.edge_list) THEN Raise(h0)
                   ELSE LET c == check_edge(h0, h.edge_list[i])
                        IN  IF c.raised THEN c
                            ELSE [c EXCEPT !.edge_index = h.edge_index + 1,
                                           !.checking = FALSE]
              ELSE IF i > Len(h.edge_list) THEN Raise(h0)
                   ELSE [h0 EXCEPT !.kruskal_status[h.edge_list[i]] = 2,
                                   !.checking = TRUE]
    IN  IF h1.raised THEN h1
        ELSE IF h1.edge_index = Cardinality(h1.edges)
        THEN [h1 EXCEPT !.runner_state = "runner.done"]
        ELSE h1

\* run_click that leaves the classifications when the run is done.
run_click_no_reset(h) ==
    IF h.runner_state = "runner.stepping" THEN next_step(h)
    ELSE IF h.runner_state = "runner.done"
    THEN [h EXCEPT !.runner_done = TRUE]
    ELSE h

\* The body of AlgorithmRunner.run for a MOUSEBUTTONDOWN event of button 1.
run_click(h) ==
    IF h.runner_state = "runner.stepping" THEN next_step(h)
    ELSE IF h.runner_state = "runner.done"
    THEN [h EXCEPT !.kruskal_status =
                       [e \in DOMAIN h.kruskal_status |->
                           IF e \in h.edges THEN 0 ELSE h.kruskal_status[e]],
                   !.runner_done = TRUE]
    ELSE h

\* The body of AlgorithmRunner.run for a KEYDOWN event of key K_SPACE.
run_space(h) ==
    IF h.runner_state = "runner.stepping"
    THEN [h EXCEPT !.runner_state = "runner.playing"]
    ELSE h

\* constants.ALGO_PLAY_FRAMES: the frames between two steps while playing.
ALGO_PLAY_FRAMES == 20

\* The body of AlgorithmRunner.run after the events of a frame: while
\* playing, a step every ALGO_PLAY_FRAMES frames.
run_frame(h) ==
    IF h.runner_state = "runner.playing"
    THEN LET h1 == IF h.frame_counter = 0 THEN next_step(h) ELSE h
         IN  IF h1.raised THEN h1
             ELSE [h1 EXCEPT !.frame_counter =
                                 (h.frame_counter + 1) % ALGO_PLAY_FRAMES]
    ELSE h

----------------------------------------------------------------------------
(* Editor.  A handler is modelled in parts: what it does before its loop  *)
(* over the events of the frame (begin), what it does for one event, and  *)
(* what it does after the loop (end).  Each part yields the set of heaps  *)
(* it may leave, one for each outcome of get_selected and of usable.      *)

\* Editor.__init__ on graph g
Editor_init(h) ==
    [h EXCEPT !.ed_state = "editor.free",
              !.selected = NoneSelected,
              !.from_vertex = NoneSelected,
              !.new_weight = 0,
              !.ed_done = FALSE,
              !.ed_quit = FALSE,
              !.handler = "none"]

\* The events pg.event.get() may yield: QUIT, MOUSEBUTTONDOWN and
\* MOUSEBUTTONUP with a button, MOUSEMOTION, MOUSEWHEEL with its y, KEYDOWN
\* with K_SPACE.
WheelYs == {-1, 1}
Events ==
    {<<"QUIT">>, <<"MOUSEBUTTONDOWN", 1>>, <<"MOUSEBUTTONDOWN", 3>>,
     <<"MOUSEBUTTONUP", 1>>, <<"MOUSEMOTION">>, <<"KEYDOWN", "K_SPACE">>}
        \cup {<<"MOUSEWHEEL", y>> : y \in WheelYs}

max(x, y) == IF x >= y THEN x ELSE y

\* self._selected = self.graph.get_selected(mouse_pos)
select(h, p) ==
    {IF r.raised THEN Raise(h) ELSE [h EXCEPT !.selected = r.value] :
        r \in get_selected(h, p)}

\* state_editor_free and state_editor_clicking, before the loop.
free_begin(h, p) ==
    {IF h1.raised THEN h1 ELSE [h1 EXCEPT !.from_vertex = NoneSelected] :
        h1 \in select(h, p)}

\* state_editor_clicking that keeps the selection of the last frame.
clicking_begin_stale(h, p) == {[h EXCEPT !.from_vertex = NoneSelected]}

clicking_begin(h, p) ==
    {IF h1.raised THEN h1 ELSE [h1 EXCEPT !.from_vertex = NoneSelected] :
        h1 \in select(h, p)}

\* state_editor_dragging, before the loop; pressed is
\* pg.mouse.get_pressed()[0].
dragging_begin(h, pressed) ==
    LET h1 == [h EXCEPT !.from_vertex = NoneSelected]
    IN  {IF ~pressed THEN [h1 EXCEPT !.ed_state = "editor.free"] ELSE h1}

\* state_editor_holding_edge, before the loop: only a vertex is selected.
holding_edge_begin(h, p) ==
    {IF h1.raised THEN h1
     ELSE IF h1.selected[1] # "Vertex"
     THEN [h1 EXCEPT !.selected = NoneSelected]
     ELSE h1 : h1 \in select(h, p)}

\* state_editor_free, for one event.
free_event(h, event) ==
    IF event[1] = "QUIT"
    THEN {[h EXCEPT !.ed_done = TRUE, !.ed_quit = TRUE]}
    ELSE IF event = <<"MOUSEBUTTONDOWN", 1>>
    THEN IF h.selected = NoneSelected
         THEN {add_vertex(Vertex_init(h, h.mouse_pos), h.n_vertices + 1)}
         ELSE IF h.selected[1] = "Vertex"
         THEN {[h EXCEPT !.ed_state = "editor.clicking"]}
         ELSE {h}
    ELSE IF event = <<"MOUSEBUTTONDOWN", 3>>
    THEN IF h.selected[1] = "Vertex" THEN {remove_vertex(h, h.selected[2])}
         ELSE IF h.selected[1] = "Edge" THEN {remove_edge(h, h.selected[2])}
         ELSE {h}
    ELSE IF event[1] = "MOUSEWHEEL"
    THEN IF h.selected[1] = "Edge"
         THEN {modify_edge_weight(h, h.selected[2],
                                  max(0, h.weight[h.selected[2]] + event[2]))}
         ELSE {h}
    ELSE IF event = <<"KEYDOWN", "K_SPACE">>
    THEN {LET u == usable(h, start)
          IN  IF u.raised THEN Raise(h)
              ELSE IF u.value[1] THEN [h EXCEPT !.ed_done = TRUE]
              ELSE h : start \in Starts(h)}
    ELSE {h}

\* state_editor_clicking, for one event.
clicking_event(h, event) ==
    IF event[1] = "QUIT" THEN {[h EXCEPT !.ed_done = TRUE]}
    ELSE IF event[1] = "MOUSEMOTION"
    THEN {[h EXCEPT !.ed_state = "editor.dragging"]}
    ELSE IF event = <<"MOUSEBUTTONUP", 1>>
    THEN IF h.selected[1] = "Vertex"
         THEN {[h EXCEPT !.from_vertex = h.selected,
                         !.ed_state = "editor.holding_edge"]}
         ELSE {h}
    ELSE {h}

\* state_editor_dragging, for one event.
dragging_event(h, event) ==
    IF event[1] = "QUIT" THEN {[h EXCEPT !.ed_done = TRUE]}
    ELSE IF event = <<"MOUSEBUTTONUP", 1>>
    THEN {[h EXCEPT !.ed_state = "editor.free"]}
    ELSE {h}

\* state_editor_dragging, after the loop: the selected vertex follows the
\* mouse.
dragging_end(h) ==
    IF h.selected[1] = "Vertex"
    THEN move_vertex(h, h.selected[2], h.mouse_pos)
    ELSE h

\* state_editor_holding_edge that does not clamp the scrolled weight.
holding_edge_event_no_clamp(h, event) ==
    IF event[1] = "MOUSEWHEEL"
    THEN {[h EXCEPT !.new_weight = h.new_weight + event[2]]}
    ELSE IF event = <<"MOUSEBUTTONDOWN", 1>>
            /\ h.selected # NoneSelected /\ h.selected # h.from_vertex
            /\ h.from_vertex # NoneSelected
    THEN {[add_edge(h, h.from_vertex[2], h.selected[2], h.new_weight)
              EXCEPT !.from_vertex = NoneSelected, !.new_weight = 0,
                     !.ed_state = "editor.free"]}
    ELSE {h}

\* state_editor_holding_edge, for one event.  add_edge raises ValueError
\* when _from_vertex is None, which is no member of the vertex set.
holding_edge_event(h, event) ==
    IF event[1] = "QUIT" THEN {[h EXCEPT !.ed_done = TRUE]}
    ELSE IF event = <<"MOUSEBUTTONDOWN", 1>>
    THEN IF h.selected # NoneSelected /\ h.selected # h.from_vertex
         THEN LET h1 == IF h.from_vertex = NoneSelected THEN Raise(h)
                        ELSE add_edge(h, h.from_vertex[2], h.selected[2],
                                      h.new_weight)
              IN  IF h1.raised THEN {h1}
                  ELSE {[h1 EXCEPT !.from_vertex = NoneSelected,
                                   !.new_weight = 0,
                                   !.ed_state = "editor.free"]}
         ELSE {h}
    ELSE IF event = <<"MOUSEBUTTONDOWN", 3>>
    THEN {[h EXCEPT !.from_vertex = NoneSelected,
                    !.new_weight = 0,
                    !.ed_state = "editor.free"]}
    ELSE IF event[1] = "MOUSEWHEEL"
    THEN {[h EXCEPT !.new_weight = max(0, h.new_weight + event[2])]}
    ELSE {h}

\* Editor.run: the handler of the state is entered with the mouse position.
run_begin(h, p, pressed) ==
    LET h0 == [h EXCEPT !.mouse_pos = p, !.handler = h.ed_state]
    IN  IF h.ed_state = "editor.free" THEN free_begin(h0, p)
        ELSE IF h.ed_state = "editor.clicking" THEN clicking_begin(h0, p)
        ELSE IF h.ed_state = "editor.dragging" THEN dragging_begin(h0, pressed)
        ELSE holding_edge_begin(h0, p)

\* The handler that was entered handles one event of pg.event.get().
run_event(h, event) ==
    IF h.handler = "editor.free" THEN free_event(h, event)
    ELSE IF h.handler = "editor.clicking" THEN clicking_event(h, event)
    ELSE IF h.handler = "editor.dragging" THEN dragging_event(h, event)
    ELSE holding_edge_event(h, event)

\* The handler returns and Editor.run draws the graph: the rest of the
\* loop body.  The local mouse_pos is dead from here on.
run_end(h) ==
    LET h1 == IF h.handler = "editor.dragging" THEN dragging_end(h) ELSE h
    IN  IF h1.raised THEN h1
        ELSE LET h2 == draw(h1, h1.selected)
             IN  IF h2.raised THEN h2
                 ELSE [h2 EXCEPT !.handler = "none", !.mouse_pos = <<0, 0>>]

----------------------------------------------------------------------------
(* The calls a client of Graph makes *)

VertexObjs == 1..n_vertices
EdgeObjs == 1..n_edges

None == "None"

\* The vertex set a Kruskal was constructed on is remembered, and the heap
\* an AlgorithmRunner was constructed on.
Remember(call) ==
    /\ snapshot' = IF call[1] \in {"Kruskal", "AlgorithmRunner"} THEN vertices
                   ELSE snapshot
    /\ before' = IF call[1] = "AlgorithmRunner" THEN <<Heap>> ELSE before

\* A mutator was called: the heap it leaves, and the call.
Mutate(h, call) ==
    /\ Install(h)
    /\ op' = call
    /\ ret' = None
    /\ Remember(call)

\* A query was called: the heap is left alone.
Query(r, call) ==
    /\ Install([Heap EXCEPT !.raised = r.raised])
    /\ op' = call
    /\ ret' = IF r.raised THEN None ELSE r.value
    /\ Remember(call)

\* One more call of a client that makes at most MaxCalls calls.
Counted ==
    /\ calls < MaxCalls
    /\ calls' = calls + 1

\* g.add_vertex(V(0, 0)): a new Vertex is constructed and added.
NewVertex ==
    /\ Counted
    /\ Mutate(add_vertex(Vertex_init(Heap, Origin), n_vertices + 1),
              <<"add_vertex", n_vertices + 1>>)

\* g.add_vertex(v) with an existing object (a member, or a removed vertex).
AddVertex ==
    /\ Counted
    /\ \E v \in VertexObjs : Mutate(add_vertex(Heap, v), <<"add_vertex", v>>)

MoveVertex ==
    /\ Counted
    /\ \E v \in VertexObjs, p \in Points :
          Mutate(move_vertex(Heap, v, p), <<"move_vertex", v, p>>)

RemoveVertex ==
    /\ Counted
    /\ \E v \in VertexObjs :
          Mutate(remove_vertex(Heap, v), <<"remove_vertex", v>>)

AddEdge ==
    /\ Counted
    /\ \E a \in VertexObjs, b \in VertexObjs, w \in Weights :
          Mutate(add_edge(Heap, a, b, w), <<"add_edge", a, b, w>>)

ModifyEdgeWeight ==
    /\ Counted
    /\ \E e \in EdgeObjs, w \in Weights :
          Mutate(modify_edge_weight(Heap, e, w), <<"modify_edge_weight", e, w>>)

RemoveEdge ==
    /\ Counted
    /\ \E e \in EdgeObjs : Mutate(remove_edge(Heap, e), <<"remove_edge", e>>)

Connected ==
    /\ Counted
    /\ \E start \in Starts(Heap) :
          Query(connected(Heap, start), <<"connected">>)

Usable ==
    /\ Counted
    /\ \E start \in Starts(Heap) : Query(usable(Heap, start), <<"usable">>)

\* The heap of the empty Graph(set(), set()).
EmptyHeap ==
    [n_vertices |-> 0, pos |-> <<>>, v_edges |-> <<>>, n_edges |-> 0,
     e_vertices |-> <<>>, weight |-> <<>>, kruskal_status |-> <<>>,
     label_rect |-> <<>>,
     vertices |-> {}, edges |-> {}, components |-> <<>>,
     edge_list |-> <<>>, edge_index |-> 0, checking |-> FALSE,
     runner_state |-> "none", runner_done |-> FALSE, frame_counter |-> 0,
     next_step_calls |-> 0, ed_state |-> "none", selected |-> <<"None">>,
     from_vertex |-> <<"None">>, new_weight |-> 0, ed_done |-> FALSE,
     ed_quit |-> FALSE, handler |-> "none", mouse_pos |-> <<0, 0>>,
     raised |-> FALSE]

\* The state in which the heap is h and nothing has been called yet.
Start(h) ==
    /\ n_vertices = h.n_vertices
    /\ pos = h.pos
    /\ v_edges = h.v_edges
    /\ n_edges = h.n_edges
    /\ e_vertices = h.e_vertices
    /\ weight = h.weight
    /\ kruskal_status = h.kruskal_status
    /\ label_rect = h.label_rect
    /\ vertices = h.vertices
    /\ edges = h.edges
    /\ components = h.components
    /\ snapshot = {}
    /\ edge_list = h.edge_list
    /\ edge_index = h.edge_index
    /\ checking = h.checking
    /\ runner_state = h.runner_state
    /\ runner_done = h.runner_done
    /\ frame_counter = h.frame_counter
    /\ next_step_calls = h.next_step_calls
    /\ before = <<>>
    /\ ed_state = h.ed_state
    /\ ed_selected = h.selected
    /\ from_vertex = h.from_vertex
    /\ new_weight = h.new_weight
    /\ ed_done = h.ed_done
    /\ ed_quit = h.ed_quit
    /\ handler = h.handler
    /\ ed_mouse_pos = h.mouse_pos
    /\ raised = FALSE
    /\ op = <<"Graph">>
    /\ ret = None
    /\ calls = 0

\* Graph(set(), set())
Init == Start(EmptyHeap)

Next ==
    \/ NewVertex
    \/ AddVertex
    \/ MoveVertex
    \/ RemoveVertex
    \/ AddEdge
    \/ ModifyEdgeWeight
    \/ RemoveEdge
    \/ Connected
    \/ Usable

Spec == Init /\ [][Next]_vars

----------------------------------------------------------------------------
(* A client that builds a graph and drives a Kruskal engine by hand *)

\* g.add_vertex(V(0, 0)), up to MaxVertices vertices.
BuildVertex ==
    /\ n_vertices < MaxVertices
    /\ Mutate(add_vertex(Vertex_init(Heap, Origin), n_vertices + 1),
              <<"add_vertex", n_vertices + 1>>)
    /\ UNCHANGED calls

\* g.add_edge(a, b, 0), up to MaxEdges edges.
BuildEdge ==
    /\ n_edges < MaxEdges
    /\ \E a \in vertices, b \in vertices :
          /\ a < b
          /\ Mutate(add_edge(Heap, a, b, 0), <<"add_edge", a, b, 0>>)
    /\ UNCHANGED calls

\* Kruskal(g): the client's engine from now on.
KruskalInit ==
    /\ Mutate(Kruskal_init(Heap), <<"Kruskal">>)
    /\ UNCHANGED calls

\* kruskal.check_edge(e) with any Edge object.
CheckEdge ==
    /\ Len(components) = 1
    /\ \E e \in EdgeObjs : Mutate(check_edge(Heap, e), <<"check_edge", e>>)
    /\ UNCHANGED calls

NextKruskal ==
    \/ BuildVertex
    \/ BuildEdge
    \/ KruskalInit
    \/ CheckEdge

SpecKruskal == Init /\ [][NextKruskal]_vars

----------------------------------------------------------------------------
(* A client that constructs Edge objects itself *)

\* Edge(a, b, w) with any two Vertex objects, up to MaxEdges edges.
EdgeInit ==
    /\ n_edges < MaxEdges
    /\ \E a \in VertexObjs, b \in VertexObjs, w \in Weights :
          Mutate(Edge_init(Heap, a, b, w), <<"Edge", a, b, w>>)
    /\ UNCHANGED calls

NextEdge ==
    \/ BuildVertex
    \/ EdgeInit

SpecEdge == Init /\ [][NextEdge]_vars

----------------------------------------------------------------------------
(* An AlgorithmRunner run on a graph that a client built *)

\* n calls g.add_vertex(V(0, 0)).
RECURSIVE WithVertices(_, _)
WithVertices(h, n) ==
    IF n = 0 THEN h
    ELSE LET h1 == WithVertices(h, n - 1)
         IN  add_vertex(Vertex_init(h1, Origin), h1.n_vertices + 1)

\* The calls g.add_edge(a, b, w[<<a, b>>]) for the pairs <<a, b>> of ps, in
\* the order of a, then of b.
RECURSIVE WithEdges(_, _, _)
WithEdges(h, w, ps) ==
    IF ps = {} THEN h
    ELSE LET p == CHOOSE x \in ps :
                      \A y \in ps : \/ x[1] < y[1]
                                    \/ x[1] = y[1] /\ x[2] <= y[2]
         IN  WithEdges(add_edge(h, p[1], p[2], w[p]), w, ps \ {p})

\* The graph a client builds with n add_vertex calls and one add_edge call
\* for each pair of DOMAIN w.
BuiltGraph(n, w) == WithEdges(WithVertices(EmptyHeap, n), w, DOMAIN w)

RunWeights == 0..MaxEdgeWeight

\* The graphs of at most MaxVertices vertices and MaxEdges edges with
\* weights of ws.
InitGraph(ws) ==
    \E n \in 1..MaxVertices :
        \E ps \in SUBSET {p \in (1..n) \X (1..n) : p[1] < p[2]} :
            /\ Cardinality(ps) <= MaxEdges
            /\ \E w \in [ps -> ws] :
                  Start(BuiltGraph(n, w))

InitRun == InitGraph(RunWeights)

\* AlgorithmRunner(screen, font, g)
RunnerInit ==
    /\ runner_state = "none"
    /\ \E q \in get_sorted_edges(Heap) :
          Mutate(AlgorithmRunner_init(Heap, q), <<"AlgorithmRunner">>)
    /\ UNCHANGED calls

\* A left click while AlgorithmRunner.run loops.  The loop ends when _done
\* is set, and an exception that next_step raises ends it too.
RunnerClick ==
    /\ runner_state # "none"
    /\ ~runner_done
    /\ ~raised
    /\ Mutate(run_click(Heap), <<"click">>)
    /\ UNCHANGED calls

\* The SPACE key is pressed while AlgorithmRunner.run loops.
RunnerSpace ==
    /\ runner_state # "none"
    /\ ~runner_done
    /\ ~raised
    /\ Mutate(run_space(Heap), <<"space">>)
    /\ UNCHANGED calls

\* The events of a frame of AlgorithmRunner.run are handled: the rest of
\* the loop body.
RunnerFrame ==
    /\ runner_state # "none"
    /\ ~runner_done
    /\ ~raised
    /\ Mutate(run_frame(Heap), <<"frame">>)
    /\ UNCHANGED calls

\* A run that is stepped by clicks.
NextRun ==
    \/ RunnerInit
    \/ RunnerClick

SpecRun == InitRun /\ [][NextRun]_vars

\* A run that is stepped by clicks and played after a SPACE key, on the
\* graphs with weights of Weights.
InitPlay == InitGraph(Weights)

NextPlay ==
    \/ RunnerInit
    \/ RunnerClick
    \/ RunnerSpace
    \/ RunnerFrame

SpecPlay == InitPlay /\ [][NextPlay]_vars

----------------------------------------------------------------------------
(* A client that draws a graph and asks for the element under the mouse *)

\* The positions the vertices are constructed at, and the mouse positions.
VertexPoints == {<<0, 0>>, <<40, 0>>, <<40, 8>>, <<10, 0>>}
MousePoints == {<<4, 0>>, <<10, 0>>, <<20, 3>>, <<20, 8>>, <<100, 100>>}

\* The calls g.add_vertex(V(x, y)) for the positions of list pp.
RECURSIVE WithVerticesAt(_, _)
WithVerticesAt(h, pp) ==
    IF pp = <<>> THEN h
    ELSE LET h1 == WithVerticesAt(h, SubSeq(pp, 1, Len(pp) - 1))
         IN  add_vertex(Vertex_init(h1, pp[Len(pp)]), h1.n_vertices + 1)

\* The graphs of at most MaxVertices vertices at positions of VertexPoints
\* and at most MaxEdges edges, of weight 0.
InitSelect ==
    \E n \in 1..MaxVertices :
        \E pp \in [1..n -> VertexPoints] :
            \E ps \in SUBSET {p \in (1..n) \X (1..n) : p[1] < p[2]} :
                /\ Cardinality(ps) <= MaxEdges
                /\ Start(WithEdges(WithVerticesAt(EmptyHeap, pp),
                                   [p \in ps |-> 0], ps))

\* g.draw(surf, selected, font) with nothing or an edge selected.  An
\* exception ends the client.
Draw ==
    /\ ~raised
    /\ \E selected \in {NoneSelected} \cup {EdgeSelected(e) : e \in edges} :
          Mutate(draw(Heap, selected), <<"draw">>)
    /\ UNCHANGED calls

\* g.get_selected(mouse_pos)
GetSelected ==
    /\ ~raised
    /\ \E mouse_pos \in MousePoints :
          \E r \in get_selected(Heap, mouse_pos) :
              Query(r, <<"get_selected", mouse_pos>>)
    /\ UNCHANGED calls

NextSelect ==
    \/ Draw
    \/ GetSelected

SpecSelect == InitSelect /\ [][NextSelect]_vars

----------------------------------------------------------------------------
(* An Editor on the empty graph, driven by events *)

\* The mouse positions: two places for a vertex, 40 apart, and a point
\* near the line between them.
EditorPoints == {<<0, 0>>, <<40, 0>>, <<20, 3>>}

\* The bounds of the objects the editor is let to make.
Bounded(h) ==
    /\ h.n_vertices + h.n_edges <= MaxObjects
    /\ h.new_weight <= MaxWeight
    /\ \A e \in h.edges : h.weight[e] <= MaxWeight

\* An object that neither the graph nor the editor refers to is gone; its
\* number is not used again, and its fields are given fixed values.
collect(h) ==
    LET live_v == h.vertices \cup {x[2] : x \in {y \in {h.selected, h.from_vertex} :
                                                   y[1] = "Vertex"}}
        live_e == h.edges \cup {x[2] : x \in {y \in {h.selected} : y[1] = "Edge"}}
    IN  [h EXCEPT
           !.pos = [v \in DOMAIN h.pos |->
                       IF v \in live_v THEN h.pos[v] ELSE <<0, 0>>],
           !.v_edges = [v \in DOMAIN h.v_edges |->
                           IF v \in live_v THEN h.v_edges[v] ELSE {}],
           !.weight = [e \in DOMAIN h.weight |->
                          IF e \in live_e THEN h.weight[e] ELSE 0],
           !.label_rect = [e \in DOMAIN h.label_rect |->
                              IF e \in live_e THEN h.label_rect[e] ELSE <<>>],
           !.e_vertices = [e \in DOMAIN h.e_vertices |->
                              IF e \in live_e THEN h.e_vertices[e]
                              ELSE <<0, 0>>]]

InitEditor == Start(Editor_init(EmptyHeap))

\* A frame of Editor.run begins: the mouse is somewhere and the handler of
\* the state is entered.  The loop ends when _done is set, and an exception
\* ends it too.
EditorFrame ==
    /\ ~raised /\ ~ed_done
    /\ handler = "none"
    /\ \E p \in EditorPoints,
          pressed \in IF ed_state = "editor.dragging" THEN BOOLEAN ELSE {TRUE} :
          \E h \in run_begin(Heap, p, pressed) :
              Mutate(collect(h), <<"frame", ed_state>>)
    /\ UNCHANGED calls

\* The handler takes one more event from the queue.
EditorEvent ==
    /\ ~raised /\ ~ed_quit
    /\ handler # "none"
    /\ \E event \in Events :
          \E h \in run_event(Heap, event) :
              /\ Bounded(h)
              /\ Mutate(collect(h), <<"event">>)
    /\ UNCHANGED calls

\* The queue is empty: the handler returns and the frame is drawn.
EditorFrameEnd ==
    /\ ~raised /\ ~ed_quit
    /\ handler # "none"
    /\ Mutate(collect(run_end(Heap)), <<"frame_end", handler>>)
    /\ UNCHANGED calls

NextEditor ==
    \/ EditorFrame
    \/ EditorEvent
    \/ EditorFrameEnd

SpecEditor == InitEditor /\ [][NextEditor]_vars

----------------------------------------------------------------------------
(* Reference definitions the claims are stated with *)

\* The members of the edge set that join a and b, in either direction.
Between(h, a, b) == {e \in h.edges : PairSet(h.e_vertices[e]) = {a, b}}

\* The members of the edge set that have v as an endpoint.
Incident(h, v) == {e \in h.edges : v \in PairSet(h.e_vertices[e])}

\* What a client can observe of the graph: both sets and every field of
\* every object.
SameHeap(h1, h2) ==
    /\ h1.vertices = h2.vertices
    /\ h1.edges = h2.edges
    /\ h1.pos = h2.pos
    /\ h1.v_edges = h2.v_edges
    /\ h1.e_vertices = h2.e_vertices
    /\ h1.weight = h2.weight
    /\ h1.kruskal_status = h2.kruskal_status
    /\ h1.label_rect = h2.label_rect
    /\ h1.n_vertices = h2.n_vertices
    /\ h1.n_edges = h2.n_edges
    /\ h1.components = h2.components

\* The vertices reachable from those of S along edges of the edge set: the
\* least set that holds S and is closed under the edge relation.
RECURSIVE ReachableFrom(_, _)
ReachableFrom(h, S) ==
    LET step == S \cup {x \in h.vertices :
                          \E e \in h.edges, y \in S :
                              PairSet(h.e_vertices[e]) = {x, y}}
    IN  IF step = S THEN S ELSE ReachableFrom(h, step)

\* Every vertex is reachable from every other vertex.
RefConnected(h) ==
    \A x \in h.vertices : ReachableFrom(h, {x}) = h.vertices

----------------------------------------------------------------------------
(* Claims about the Graph *)

\* C4: after any sequence of Graph calls from the empty graph the graph is
\* simple: no edge of the edge set has equal endpoints, no two distinct
\* edges of the edge set join the same unordered pair of vertices, and
\* add_edge(a, a, w) with a in the graph changes nothing.
C4_Simple ==
    /\ \A e \in edges : e_vertices[e][1] # e_vertices[e][2]
    /\ \A e1 \in edges, e2 \in edges :
          e1 # e2 => PairSet(e_vertices[e1]) # PairSet(e_vertices[e2])
    /\ \A a \in vertices, w \in Weights :
          LET h == add_edge(Heap, a, a, w)
          IN  ~h.raised /\ SameHeap(h, Heap)

\* C4's case: add_edge was called for a pair of vertices that an edge already
\* joined in the opposite direction, and for a self-loop.
C4_Witness ==
    \/ /\ Len(op) = 4 /\ op[1] = "add_edge" /\ ~raised
       /\ \E e \in edges : e_vertices[e] = <<op[3], op[2]>>
       /\ Cardinality(edges) >= 2
    \/ /\ Len(op) = 4 /\ op[1] = "add_edge" /\ ~raised
       /\ op[2] = op[3] /\ Cardinality(edges) >= 1

\* C5: for member vertices a # b and weights w1, w2, add_edge(a, b, w1)
\* followed by add_edge(a, b, w2) or by add_edge(b, a, w2) leaves exactly one
\* edge between a and b, of weight w2; the edge set grew by at most one edge
\* over the two calls, and every other edge and its weight is unchanged.
\* Stated of the steps: no add_edge call for members a # b removes an edge,
\* adds more than one or touches an edge that does not join a and b, and the
\* second of two such calls in a row for one pair adds none and leaves
\* exactly one edge between a and b, of weight w2.
C5_AddEdgeTwice ==
    [][\A a \in vertices, b \in vertices, w2 \in Weights :
          (a # b /\ op' = <<"add_edge", a, b, w2>>) =>
              /\ ~raised'
              /\ edges \subseteq edges'
              /\ Cardinality(edges') <= Cardinality(edges) + 1
              /\ edges' \ edges \subseteq Between(Heap', a, b)
              /\ \A e \in edges \ Between(Heap, a, b) :
                    /\ weight'[e] = weight[e]
                    /\ e_vertices'[e] = e_vertices[e]
              /\ (/\ Len(op) = 4 /\ op[1] = "add_edge" /\ ~raised
                  /\ {op[2], op[3]} = {a, b})
                 => /\ edges' = edges
                    /\ Cardinality(Between(Heap', a, b)) = 1
                    /\ \A e \in Between(Heap', a, b) : weight'[e] = w2]_vars

\* C5's case: three vertices, then two edges were made with six calls in
\* all, so the sixth call, add_edge(b, a, w2), came right after the
\* add_edge(a, b, w1) that made the second edge; the first edge is the other
\* edge.
C5_Witness ==
    /\ calls = 6 /\ n_vertices = 3 /\ n_edges = 2 /\ edges = {1, 2}
    /\ Len(op) = 4 /\ op[1] = "add_edge" /\ ~raised
    /\ e_vertices[2] = <<op[3], op[2]>>
    /\ 3 \in {op[2], op[3]}
    /\ weight[2] = op[4]

\* C6: a remove_vertex(v) of a member vertex v leaves v out of the vertex
\* set, leaves no edge with v as an endpoint in the edge set, leaves exactly
\* the edges that were not incident to v, and leaves all other vertices.
C6_RemoveVertex ==
    [][\A v \in vertices :
          op' = <<"remove_vertex", v>> =>
              /\ ~raised'
              /\ v \notin vertices'
              /\ vertices' = vertices \ {v}
              /\ \A e \in edges' : v \notin PairSet(e_vertices'[e])
              /\ edges' = edges \ Incident(Heap, v)
              /\ \A e \in edges' : /\ e_vertices'[e] = e_vertices[e]
                                   /\ weight'[e] = weight[e]]_vars

\* C6's case: a vertex with an incident edge was removed and another edge
\* stayed.
C6_Witness ==
    /\ op[1] = "remove_vertex" /\ ~raised
    /\ \E e \in EdgeObjs \ edges : op[2] \in PairSet(e_vertices[e])
    /\ edges # {}

\* C7: after any sequence of Graph calls from the empty graph, both
\* endpoints of every edge of the edge set are members of the vertex set.
C7_NoDanglingEdge ==
    \A e \in edges : PairSet(e_vertices[e]) \subseteq vertices

\* C7's case: a vertex with two incident edges was removed while a third
\* vertex kept none, or an edge was added after a vertex had been removed.
C7_Witness ==
    \/ /\ op[1] = "remove_vertex" /\ ~raised
       /\ Cardinality({e \in EdgeObjs \ edges :
                          op[2] \in PairSet(e_vertices[e])}) = 2
    \/ /\ op[1] = "add_edge" /\ ~raised
       /\ VertexObjs \ vertices # {} /\ edges # {}

\* C8: a Graph mutator called with a non-member (move_vertex, remove_vertex:
\* the vertex; add_edge: an endpoint; modify_edge_weight, remove_edge: the
\* edge) raises and leaves the vertex set, the edge set, every weight, every
\* position and every vertex's incident-edge set as before the call.
C8_FailureAtomic ==
    /\ \A v \in VertexObjs \ vertices :
          /\ \A p \in Points :
                LET h == move_vertex(Heap, v, p)
                IN  h.raised /\ SameHeap(h, Heap)
          /\ LET h == remove_vertex(Heap, v)
             IN  h.raised /\ SameHeap(h, Heap)
          /\ \A x \in VertexObjs, w \in Weights :
                /\ LET h == add_edge(Heap, v, x, w)
                   IN  h.raised /\ SameHeap(h, Heap)
                /\ LET h == add_edge(Heap, x, v, w)
                   IN  h.raised /\ SameHeap(h, Heap)
    /\ \A e \in EdgeObjs \ edges :
          /\ \A w \in Weights :
                LET h == modify_edge_weight(Heap, e, w)
                IN  h.raised /\ SameHeap(h, Heap)
          /\ LET h == remove_edge(Heap, e)
             IN  h.raised /\ SameHeap(h, Heap)

\* C8's case: a mutator was called with a removed vertex or a removed edge
\* on a graph that has edges, and raised.
C8_Witness ==
    /\ raised
    /\ edges # {}
    /\ op[1] \in {"move_vertex", "remove_vertex", "add_edge",
                  "modify_edge_weight", "remove_edge"}

\* C9: usable returns (False, the needs-an-edge message) whenever the edge
\* set is empty, connected or not; (False, the must-be-connected message)
\* whenever there is an edge and the graph is not connected; and True exactly
\* when the graph has an edge and is connected.  It holds of every start
\* vertex the traversal may pick, and of what the last usable call returned.
C9_Usable ==
    LET hasEdge == edges # {}
        isConnected == RefConnected(Heap)
    IN  /\ \A start \in Starts(Heap) :
              LET u == usable(Heap, start)
              IN  /\ ~u.raised
                  /\ ~hasEdge => u.value = <<FALSE, MsgNeedsEdge>>
                  /\ (hasEdge /\ ~isConnected)
                        => u.value = <<FALSE, MsgMustBeConnected>>
                  /\ u.value[1] <=> (hasEdge /\ isConnected)
        /\ op = <<"usable">> =>
              /\ ~raised
              /\ ret[1] <=> (hasEdge /\ isConnected)
              /\ ~hasEdge => ret[2] = MsgNeedsEdge

\* C9's case: usable was called on two isolated vertices and no edge, and
\* answered that the graph needs an edge.
C9_Witness ==
    /\ op = <<"usable">>
    /\ Cardinality(vertices) = 2 /\ edges = {}
    /\ ~RefConnected(Heap)
    /\ ret = <<FALSE, MsgNeedsEdge>>

\* C10: connected is True when the graph has 0 or 1 vertices, and otherwise
\* True if and only if every vertex is reachable from every other vertex
\* along edges of the graph, whichever start vertex the traversal picks.
C10_Connected ==
    LET isConnected == RefConnected(Heap)
    IN  /\ \A start \in Starts(Heap) :
              LET c == connected(Heap, start)
              IN  /\ ~c.raised
                  /\ Cardinality(vertices) <= 1 => c.value
                  /\ c.value <=> isConnected
        /\ op = <<"connected">> => (~raised /\ (ret <=> isConnected))

\* C10's case: connected was called on three vertices joined by two edges
\* and returned True.
C10_Witness ==
    /\ op = <<"connected">>
    /\ Cardinality(vertices) = 3 /\ Cardinality(edges) = 2
    /\ ret = TRUE

\* The spanning trees of the graph: the sets of |V| - 1 edges along which
\* every vertex is reachable from every other vertex.
SpanningTrees(h) ==
    {T \in SUBSET h.edges :
        /\ Cardinality(T) = Cardinality(h.vertices) - 1
        /\ RefConnected([h EXCEPT !.edges = T])}

\* The least weight of a spanning tree of a connected graph.
MSTWeight(h) ==
    LET ws == {SumWeights(h, T) : T \in SpanningTrees(h)}
    IN  CHOOSE m \in ws : \A x \in ws : m <= x

\* The edge that joins a and b.
EdgeOf(h, a, b) == CHOOSE e \in Between(h, a, b) : TRUE

\* The graph is the triangle v1v2 = 1, v2v3 = 2, v1v3 = 3.
Triangle123(h) ==
    /\ h.vertices = {1, 2, 3}
    /\ Cardinality(h.edges) = 3
    /\ \A p \in {<<1, 2>>, <<2, 3>>, <<1, 3>>} : Between(h, p[1], p[2]) # {}
    /\ h.weight[EdgeOf(h, 1, 2)] = 1
    /\ h.weight[EdgeOf(h, 2, 3)] = 2
    /\ h.weight[EdgeOf(h, 1, 3)] = 3

----------------------------------------------------------------------------
(* Claims about Kruskal *)

\* C1: for every connected graph with non-negative integer weights, a
\* Kruskal initialised on the graph and one check_edge call for each edge, in
\* the order get_sorted_edges returned, leave kruskal_weight (the sum of the
\* weights of the Included edges) equal to the least weight of a spanning
\* tree, whatever order edges of equal weight are visited in; the triangle
\* with weights 1, 2, 3 ends with its edges Included, Included, Excluded and
\* with weight 3.
C1_KruskalMST ==
    (runner_state = "runner.done" /\ ~runner_done) =>
        /\ RefConnected(Heap) => kruskal_weight(Heap) = MSTWeight(Heap)
        /\ Triangle123(Heap) =>
              /\ kruskal_status[EdgeOf(Heap, 1, 2)] = 1
              /\ kruskal_status[EdgeOf(Heap, 2, 3)] = 1
              /\ kruskal_status[EdgeOf(Heap, 1, 3)] = -1
              /\ kruskal_weight(Heap) = 3

\* C1's case: the run on the triangle with weights 1, 2, 3 is done.
C1_Witness ==
    /\ runner_state = "runner.done" /\ ~runner_done
    /\ Triangle123(Heap)
    /\ edge_index = 3
    /\ kruskal_weight(Heap) = 3

\* The components of cs that hold vertex x.
ComponentsWith(cs, x) == {c \in cs : x \in c}

\* C2: check_edge(e) on an edge whose two endpoints are both in some
\* component: if the endpoints are in the same component, e is classified
\* Excluded (-1) and the component set is unchanged; if they are in different
\* components, e is classified Included (1), the two components are replaced
\* by their union, every other component is unchanged, and the number of
\* components decreases by exactly one.
C2_CheckEdge ==
    [][\A e \in EdgeObjs :
          LET cs == components[1]
              ca == ComponentsWith(cs, e_vertices[e][1])
              cb == ComponentsWith(cs, e_vertices[e][2])
          IN  (op' = <<"check_edge", e>> /\ ca # {} /\ cb # {}) =>
                  /\ ~raised'
                  /\ (ca \cap cb # {}) =>
                        /\ kruskal_status'[e] = -1
                        /\ components' = components
                  /\ (ca \cap cb = {}) =>
                        /\ kruskal_status'[e] = 1
                        /\ (UNION ca) \cup (UNION cb) \in components'[1]
                        /\ ca \cap components'[1] = {}
                        /\ cb \cap components'[1] = {}
                        /\ cs \ (ca \cup cb) \subseteq components'[1]
                        /\ components'[1] \ cs = {(UNION ca) \cup (UNION cb)}
                        /\ Cardinality(components'[1]) = Cardinality(cs) - 1
                  /\ \A x \in EdgeObjs \ {e} :
                        kruskal_status'[x] = kruskal_status[x]]_vars

\* C2's case: check_edge merged two of three components into one and left
\* the third, and (other state) check_edge excluded an edge.
C2_Witness ==
    /\ op[1] = "check_edge" /\ ~raised
    /\ kruskal_status[op[2]] = 1
    /\ Cardinality(snapshot) = 3
    /\ Cardinality(components[1]) = 2
    /\ \E x \in EdgeObjs : kruskal_status[x] = -1

\* C3: after Kruskal's initialisation and after any sequence of check_edge
\* calls (successful or failing, in any order, with repeats) the components
\* are a partition of the vertex set the Kruskal was constructed on: each is
\* non-empty, they are pairwise disjoint and their union is that vertex set;
\* initially each component is a singleton.
C3_Partition ==
    Len(components) = 1 =>
        LET cs == components[1]
        IN  /\ \A c \in cs : c # {}
            /\ \A c1 \in cs, c2 \in cs : c1 # c2 => c1 \cap c2 = {}
            /\ UNION cs = snapshot
            /\ op = <<"Kruskal">> =>
                  /\ snapshot = vertices
                  /\ \A c \in cs : Cardinality(c) = 1

\* C3's case: a check_edge call failed (its edge has an endpoint added
\* after the initialisation) after another had merged two components.
C3_Witness ==
    /\ op[1] = "check_edge" /\ raised
    /\ \E c \in components[1] : Cardinality(c) = 2
    /\ snapshot # vertices

----------------------------------------------------------------------------
(* Claims about an AlgorithmRunner run *)

\* What a run must leave alone: the graph apart from the classifications.
GraphOf(h) ==
    [vertices |-> h.vertices, edges |-> h.edges, pos |-> h.pos,
     v_edges |-> h.v_edges, e_vertices |-> h.e_vertices,
     weight |-> h.weight, n_vertices |-> h.n_vertices,
     n_edges |-> h.n_edges]

RECURSIVE SumByWeight(_, _)
SumByWeight(h, ws) ==
    IF ws = {} THEN 0
    ELSE LET w == CHOOSE x \in ws : TRUE
         IN  w * Cardinality({e \in h.edges : /\ h.kruskal_status[e] = 1
                                              /\ h.weight[e] = w})
             + SumByWeight(h, ws \ {w})

\* C12: in every state of a run kruskal_weight is the sum of the weights
\* of the edges of the graph that are Included (1); Unchecked, Checking and
\* Excluded edges add nothing, and it is 0 when no edge is Included.
C12_KruskalWeight ==
    /\ kruskal_weight(Heap) = SumByWeight(Heap, {weight[e] : e \in edges})
    /\ (\A e \in edges : kruskal_status[e] # 1) => kruskal_weight(Heap) = 0

C12_Witness ==
    \E e1 \in edges, e2 \in edges, e3 \in edges :
        /\ kruskal_status[e1] = 1 /\ weight[e1] > 0
        /\ kruskal_status[e2] = 2 /\ weight[e2] > 0
        /\ kruskal_status[e3] = 0 /\ weight[e3] > 0
        /\ kruskal_weight(Heap) = weight[e1]

\* The position of edge e in the edge list of the runner.
IndexOf(q, e) == CHOOSE i \in DOMAIN q : q[i] = e

\* C19: in every step of a run before the final reset each edge keeps its
\* classification or moves Unchecked -> Checking, Checking -> Included or
\* Checking -> Excluded; in every state of the run at most one edge is
\* Checking, and an edge that has left Unchecked is preceded in the
\* ascending-weight edge list only by edges that are Included or Excluded.
C19_Classification ==
    [][(runner_state' # "none" /\ ~runner_done') =>
          /\ \A e \in edges :
                \/ kruskal_status'[e] = kruskal_status[e]
                \/ kruskal_status[e] = 0 /\ kruskal_status'[e] = 2
                \/ kruskal_status[e] = 2 /\ kruskal_status'[e] \in {1, -1}
          /\ Cardinality({e \in edges' : kruskal_status'[e] = 2}) <= 1
          /\ \A i \in DOMAIN edge_list', j \in DOMAIN edge_list' :
                (i < j /\ kruskal_status'[edge_list'[j]] # 0) =>
                    kruskal_status'[edge_list'[i]] \in {1, -1}
          /\ \A e \in edges' : \E i \in DOMAIN edge_list' : edge_list'[i] = e
      ]_vars

C19_Witness ==
    /\ runner_state = "runner.playing"
    /\ Cardinality(edges) = 3
    /\ kruskal_status[edge_list[1]] = 1
    /\ kruskal_status[edge_list[2]] = 1
    /\ kruskal_status[edge_list[3]] = 2
    /\ op = <<"frame">>

\* C20: for a graph with E >= 1 edges the runner is in state runner.done
\* exactly when next_step has been called 2*E times, and never after more
\* calls; no step taken in state runner.done calls next_step; the edge
\* index never exceeds the length of the edge list and next_step never
\* raises; and in runner.done, until the reset, every edge is Included or
\* Excluded.
C20_Done ==
    [][(Cardinality(edges) >= 1 /\ runner_state' # "none") =>
          /\ (runner_state' = "runner.done") <=>
                 (next_step_calls' = 2 * Cardinality(edges))
          /\ next_step_calls' <= 2 * Cardinality(edges)
          /\ runner_state = "runner.done" => next_step_calls' = next_step_calls
          /\ edge_index' <= Len(edge_list')
          /\ ~raised'
          /\ (runner_state' = "runner.done" /\ ~runner_done') =>
                 \A e \in edges : kruskal_status'[e] \in {1, -1}
      ]_vars

C20_Witness ==
    /\ runner_state = "runner.done"
    /\ ~runner_done
    /\ Cardinality(edges) = 3
    /\ next_step_calls = 6
    /\ edge_index = 3
    /\ frame_counter = 1
    /\ op = <<"frame">>

\* C15: the list get_sorted_edges returns (the edge list of a runner) holds
\* every edge of the graph exactly once and no other element, its weights
\* are non-decreasing (weight of element i <= weight of element j for all
\* i < j), and the call leaves the graph as it was: sets, positions,
\* endpoints, weights, incident-edge sets and classifications.
C15_SortedEdges ==
    op = <<"AlgorithmRunner">> =>
        /\ Len(edge_list) = Cardinality(edges)
        /\ \A e \in edges : \E i \in DOMAIN edge_list : edge_list[i] = e
        /\ \A i \in DOMAIN edge_list : edge_list[i] \in edges
        /\ \A i \in DOMAIN edge_list, j \in DOMAIN edge_list :
              i < j => /\ weight[edge_list[i]] <= weight[edge_list[j]]
                       /\ edge_list[i] # edge_list[j]
        /\ GraphOf(Heap) = GraphOf(before[1])
        /\ kruskal_status = before[1].kruskal_status

C15_Witness ==
    /\ op = <<"AlgorithmRunner">>
    /\ weight = <<3, 1, 1>>
    /\ edges = {1, 2, 3}
    /\ edge_list = <<3, 2, 1>>

\* C13: Kruskal(g) on a graph with no vertices raises; no engine with an
\* empty component set is produced.
C13_EmptyGraph ==
    (op = <<"Kruskal">> /\ snapshot = {}) =>
        /\ raised
        /\ components = <<>>

\* C18: Edge(a, b, w) with a = b raises, and the incident-edge set of a
\* holds no edge from a to a.
C18_InvalidEdge ==
    (op[1] = "Edge" /\ op[2] = op[3]) =>
        /\ raised
        /\ \A e \in v_edges[op[2]] : e_vertices[e] # <<op[2], op[2]>>

----------------------------------------------------------------------------
(* Claims about the selection *)

\* The vertices of the graph within the vertex hit radius of point p.
InRadius(h, p) ==
    {v \in h.vertices :
        pt_distance_sq(h.pos[v], p) <= VERTEX_HOVER_RADIUS * VERTEX_HOVER_RADIUS}

\* The edges of the graph whose distance_to(p) is at most the edge hit width.
InWidth(h, p) ==
    {e \in h.edges :
        LET d == Edge_distance_to(h, e, p)
        IN  /\ ~d.raised
            /\ d.value[1] <= EDGE_HOVER_WIDTH * EDGE_HOVER_WIDTH * d.value[2]}

\* C14: get_selected(p) returns a vertex whenever a vertex is within the
\* vertex hit radius of p, whatever the edges, and that vertex is in range
\* and no in-range vertex is nearer; when it returns an edge, no vertex is
\* in range, the edge is in range and no in-range edge is nearer; when it
\* returns None, neither a vertex nor an edge is in range.
C14_GetSelected ==
    op[1] = "get_selected" =>
        LET p == op[2]
            in_v == InRadius(Heap, p)
            in_e == InWidth(Heap, p)
        IN  /\ in_v # {} =>
                  /\ ~raised
                  /\ ret[1] = "Vertex"
                  /\ ret[2] \in in_v
                  /\ \A v \in in_v : pt_distance_sq(pos[ret[2]], p)
                                         <= pt_distance_sq(pos[v], p)
            /\ (~raised /\ ret[1] = "Edge") =>
                  /\ in_v = {}
                  /\ ret[2] \in in_e
                  /\ \A e \in in_e :
                        frac_leq(Edge_distance_to(Heap, ret[2], p).value,
                                 Edge_distance_to(Heap, e, p).value)
            /\ (~raised /\ ret = NoneSelected) =>
                  /\ in_v = {}
                  /\ in_e = {}

\* The mouse is on the edge between vertices at (0, 0) and (40, 0), 10 away
\* from the first of them, and the vertex is returned: the edge is nearer.
C14_Witness ==
    /\ op = <<"get_selected", <<10, 0>>>>
    /\ ~raised
    /\ \E v \in vertices, e \in edges :
          /\ ret = VertexSelected(v)
          /\ pos[v] = <<0, 0>>
          /\ e \in InWidth(Heap, <<10, 0>>)
          /\ Edge_distance_to(Heap, e, <<10, 0>>).value[1] = 0
          /\ InRadius(Heap, <<10, 0>>) = {v}

----------------------------------------------------------------------------
(* Claims about the Editor *)

\* C16: whenever the handler of the dragging state returns with a vertex
\* selected, and so has called move_vertex(selected, mouse_pos), that vertex
\* is a member of the vertex set of the graph: the call does not raise and
\* the vertex is at the mouse position afterwards.
C16_DragMember ==
    [][(/\ handler = "editor.dragging"
        /\ op'[1] = "frame_end"
        /\ ed_selected[1] = "Vertex") =>
           /\ ed_selected[2] \in vertices
           /\ pos'[ed_selected[2]] = ed_mouse_pos
      ]_vars

\* A vertex was dragged to (20, 3) after another vertex was removed.
C16_Witness ==
    /\ op = <<"frame_end", "editor.dragging">>
    /\ ~raised
    /\ ed_selected[1] = "Vertex"
    /\ ed_selected[2] \in vertices
    /\ pos[ed_selected[2]] = <<20, 3>>
    /\ Cardinality(vertices) < n_vertices

\* C17: in every state the editor reaches from the empty graph, every edge
\* of the graph has a weight of at least 0, and so has the pending weight of
\* the edge that is being placed.
C17_WeightNonNegative ==
    ed_state # "none" =>
        /\ \A e \in edges : weight[e] >= 0
        /\ new_weight >= 0

\* An edge was scrolled to weight 1 and a second edge is being placed from
\* one of its endpoints with pending weight 1.
C17_Witness ==
    /\ ed_state = "editor.holding_edge"
    /\ new_weight = 1
    /\ \E e \in edges : weight[e] = 1 /\ from_vertex[2] \in PairSet(e_vertices[e])

----------------------------------------------------------------------------
(* Claims about the components during a run *)

\* The members of the edge set that are classified Included.
Included == {e \in edges : kruskal_status[e] = 1}

\* The vertices reachable from those of S along the edges of es.
RECURSIVE ReachableAlong(_, _)
ReachableAlong(es, S) ==
    LET step == S \cup {x \in vertices :
                          \E e \in es, y \in S :
                              PairSet(e_vertices[e]) = {x, y}}
    IN  IF step = S THEN S ELSE ReachableAlong(es, step)

\* C21: at every point of an AlgorithmRunner run, from the construction of
\* the runner to the click that ends it, the Kruskal components are exactly
\* the connected components of the graph made of all vertices and the
\* Included edges, and the Included edges contain no cycle (no Included edge
\* joins two vertices that the other Included edges connect); when the run
\* is done on a connected graph there is exactly one component and there are
\* exactly |V| - 1 Included edges.
C21_Components ==
    (runner_state # "none" /\ ~runner_done) =>
        /\ components[1] = {ReachableAlong(Included, {v}) : v \in vertices}
        /\ \A e \in Included :
               e_vertices[e][2] \notin
                   ReachableAlong(Included \ {e}, {e_vertices[e][1]})
        /\ (/\ runner_state = "runner.done"
            /\ \A v \in vertices : ReachableAlong(edges, {v}) = vertices) =>
               /\ Cardinality(components[1]) = 1
               /\ Cardinality(Included) = Cardinality(vertices) - 1

\* C21's case: the run is done on a triangle, two edges Included and the
\* third Excluded, and the three vertices are one component.
C21_Witness ==
    /\ runner_state = "runner.done" /\ ~runner_done /\ ~raised
    /\ Cardinality(vertices) = 3
    /\ Cardinality(edges) = 3
    /\ Cardinality(Included) = 2
    /\ \E e \in edges : kruskal_status[e] = -1
    /\ components[1] = {vertices}

----------------------------------------------------------------------------
(* Claims about the incident-edge sets *)

\* C22: after any sequence of Graph calls from the empty graph, the
\* incident-edge set of every vertex, in the graph or removed from it, is
\* the set of edges of the graph that have the vertex as an endpoint, and
\* deg is the number of those edges: remove_edge and the cascade of
\* remove_vertex leave no removed edge in any incident-edge set.
C22_IncidentEdges ==
    \A v \in VertexObjs :
        /\ v_edges[v] = Incident(Heap, v)
        /\ deg(Heap, v) = Cardinality(Incident(Heap, v))

\* C22's case: remove_vertex removed a vertex and, in cascade, its edge to
\* a vertex that keeps another edge.
C22_Witness ==
    /\ op[1] = "remove_vertex" /\ ~raised
    /\ op[2] \notin vertices
    /\ Cardinality(edges) = 1
    /\ n_edges = 2
    /\ \E v \in vertices : deg(Heap, v) = 1 /\ \E e \in EdgeObjs \ edges :
                               PairSet(e_vertices[e]) = {v, op[2]}

----------------------------------------------------------------------------
(* Claims about the calls the Editor makes *)

\* C23: under any sequence of events delivered to the Editor, several
\* events handled within one frame included, no Graph mutator is called
\* with a vertex or an edge that is not a member of the graph: no event
\* that a handler takes ends in an exception, and the vertex the dragging
\* handler moves is a member.
C23_NoValueError ==
    [][/\ op' = <<"event">> => ~raised'
       /\ (/\ op'[1] = "frame_end"
           /\ handler = "editor.dragging"
           /\ ed_selected[1] = "Vertex") => ed_selected[2] \in vertices
      ]_vars

\* C24: whenever Editor.run ends because SPACE was pressed (the free
\* handler set _done without quitting, and the frame was drawn), the graph
\* it returns is usable: it has at least one edge and is connected, whatever
\* events the handler took after the SPACE key in the same frame.
C24_ReturnsUsable ==
    (op = <<"frame_end", "editor.free">> /\ ed_done /\ ~ed_quit /\ ~raised) =>
        /\ edges # {}
        /\ RefConnected(Heap)

====
